---- MODULE Spec2Model ----
(***************************************************************************)
(* Model of the email archiver's ingestion pipeline:                       *)
(*   email_service.fetch_all_emails -> Client.fetch_emails ->              *)
(*   one pool worker per folder (Client._thread_fetch_emails_from_folder)  *)
(*   -> Database (one sqlite connection in autocommit mode, shared by all  *)
(*   worker threads).                                                      *)
(*                                                                         *)
(* Granularity: one step per remote call and one step per SQL statement.   *)
(* sqlite serialises the statements of a shared connection, so a statement *)
(* is atomic, and threads can be switched between any two statements.      *)
(* Code that touches only a worker's locals is folded into the step of the *)
(* statement or remote call that follows it.                               *)
(***************************************************************************)
EXTENDS Integers, Sequences, FiniteSets, TLC

\* ------------------------------------------------------------------------
\* Bounds of the model
\* ------------------------------------------------------------------------
MaxMsgs == 3

\* ------------------------------------------------------------------------
\* The remote source (IMAP account), as far as the pipeline reads it
\* ------------------------------------------------------------------------
Username == "alice"
Folders == {"A", "B"}          \* what _get_folders returns for the account

\* (date_str, from_, subject) of a message, taken as one value
Envelopes == {"e1", "e2", "e3"}

\* The MIME parts of the message with a given envelope (a copy of a message
\* in another folder is the same message).  e1 and e2 carry the same bytes
\* under two filenames, e3 carries an inline image only.
PartsFor(env) ==
    IF env = "e1"
    THEN <<[payload |-> "p1", filename |-> "f1.pdf", content_type |-> "application/pdf"]>>
    ELSE IF env = "e2"
    THEN <<[payload |-> "p1", filename |-> "f2.pdf", content_type |-> "application/pdf"]>>
    ELSE <<[payload |-> "p2", filename |-> "logo.png", content_type |-> "image/png"]>>

\* The contents a remote message can have (its uid is its position in the
\* folder: IMAP uids are unique within a folder).
Contents == {[envelope |-> e, parts |-> PartsFor(e)] : e \in Envelopes}

SeqsUpTo(S, n) == UNION {[1..k -> S] : k \in 0..n}

RECURSIVE Total(_, _)
Total(mb, fs) ==
    IF fs = {} THEN 0
    ELSE LET f == CHOOSE g \in fs : TRUE IN Len(mb[f]) + Total(mb, fs \ {f})

\* Every distribution of at most MaxMsgs messages over the folders, up to
\* the renaming of the folders: no step reads a folder's name other than to
\* pass it to the remote calls and to store it in emails.mailbox, so a
\* mailbox with the longer folder named B behaves as the one with the
\* folders' names exchanged.
Mailboxes ==
    {mb \in [Folders -> SeqsUpTo(Contents, MaxMsgs)] :
        Total(mb, Folders) <= MaxMsgs /\ Len(mb["A"]) >= Len(mb["B"])}

VARIABLES
    remote,             \* folder -> sequence of message contents (unchanged)
    accounts,           \* table accounts
    emails,             \* table emails
    attachments,        \* table attachments
    email_attachments,  \* table email_attachments
    phase,              \* "idle" | "running" (inside the ThreadPoolExecutor block)
    account,            \* Client.account of the current invocation
    pc,                 \* per folder worker: position in _thread_fetch_emails_from_folder
    messages,           \* per worker: local `messages` (headers, then full messages)
    idx,                \* per worker: position of the for loop over `messages`
    missing_emails,     \* per worker: local `missing_emails`
    att,                \* per worker: position of the loop over emailAttachments
    err,                \* per worker: why it ended with an exception
    skipped,            \* history: uids whose header conversion raised
    archived,           \* history: uids whose hash was in emails at the check
    saw_absent,         \* history: attachment hashes check_attachment_exists found absent
    cur_ok,             \* history: no remote or conversion error in this invocation
    snap,               \* history: emails, attachments, email_attachments as the invocation began
    prev_ok,            \* history: the invocation before this one ended, with no such error
    header_calls,       \* history, per worker: calls of _get_all_messages_from_folder
    full_calls,         \* history, per worker: calls of _get_specific_messages_from_folder
    wrote,              \* history, per worker: it has inserted a row in this invocation
    issued,             \* history: <<username, id>> of every Account get_account returned
    faulty              \* remote calls and conversions can raise (unchanged)

store == <<accounts, emails, attachments, email_attachments>>
local == <<pc, messages, idx, missing_emails, att, err, skipped, archived, saw_absent,
           header_calls, full_calls, wrote>>
vars == <<remote, faulty, store, phase, account, local, cur_ok, snap, prev_ok, issued>>

\* ------------------------------------------------------------------------
\* Normalisation (client.py)
\* ------------------------------------------------------------------------
\* hashlib.sha256(...).hexdigest(): equal inputs give equal digests, distinct
\* inputs distinct ones
Sha256(data) == <<"sha256", data>>

\* json.dumps(data): the text stored in analytics_data
JsonDumps(data) == <<"json", data>>

generate_email_id(username, message) == Sha256(<<username, message.envelope>>)

ExcludedContentTypes ==
    {"application/ics", "text/calendar", "text/calender",
     "message/rfc822", "message/delivery-status", "text/html", "text/plain"}
\* the content types with "image/" in them, among those the model uses
ImageContentTypes == {"image/png"}
IsArchived(part) ==
    /\ part.content_type \notin ExcludedContentTypes
    /\ part.content_type \notin ImageContentTypes

Email(acc, folder, message) ==
    [hash |-> generate_email_id(acc.username, message),
     account_id |-> acc.id,
     mailbox |-> folder,
     mailbox_id |-> message.uid,
     analytics_version |-> 0,
     analytics_data |-> JsonDumps("{}")]

EmailAttachment(acc, message, part) ==
    [account_id |-> acc.id,
     email_hash |-> generate_email_id(acc.username, message),
     attachment_hash |-> Sha256(part.payload),
     filename |-> part.filename,
     content |-> part.payload]

\* the list emailAttachments of a message, in the order of its parts
EmailAttachments(acc, message) ==
    LET kept == SelectSeq(message.parts, IsArchived)
    IN  [k \in 1..Len(kept) |-> EmailAttachment(acc, message, kept[k])]

\* ------------------------------------------------------------------------
\* Remote source adapter (client.py)
\* ------------------------------------------------------------------------
\* headers_only=True: the envelope and the uid, no body and no parts
get_all_messages_from_folder(folder) ==
    [k \in 1..Len(remote[folder]) |->
        [uid |-> k, envelope |-> remote[folder][k].envelope, parts |-> <<>>]]

Range(seq) == {seq[k] : k \in 1..Len(seq)}

\* criteria OR(uid=uids): the messages of the folder whose uid is listed
get_specific_messages_from_folder(folder, uids) ==
    LET all == [k \in 1..Len(remote[folder]) |->
                   [uid |-> k, envelope |-> remote[folder][k].envelope,
                    parts |-> remote[folder][k].parts]]
        Listed(m) == m.uid \in Range(uids)
    IN  SelectSeq(all, Listed)

\* ------------------------------------------------------------------------
\* Database (database.py)
\* ------------------------------------------------------------------------
check_email_exists(hash) == \E r \in emails : r.hash = hash

\* add_emailAttachment without its _add_attachment: the row is taken to be there
attachment_taken_as_stored(hash) == TRUE

check_attachment_exists(hash) == \E r \in attachments : r.hash = hash

check_email_attachment_exists(ea) ==
    \E r \in email_attachments :
        /\ r.account_id = ea.account_id
        /\ r.email_hash = ea.email_hash
        /\ r.attachment_hash = ea.attachment_hash

\* PRIMARY KEY constraints of the three tables: an INSERT of a taken key
\* raises sqlite3.IntegrityError and inserts nothing
EmailsKeyNeverTaken(hash) == FALSE        \* emails.hash without its PRIMARY KEY
EmailsKeyTaken(hash) == \E r \in emails : r.hash = hash
AttachmentsKeyTaken(hash) == \E r \in attachments : r.hash = hash
LinksKeyTaken(ea) ==
    \E r \in email_attachments :
        /\ r.account_id = ea.account_id
        /\ r.email_hash = ea.email_hash
        /\ r.attachment_hash = ea.attachment_hash

AttachmentRow(ea) == [hash |-> ea.attachment_hash, content |-> ea.content]
LinkRow(ea) ==
    [account_id |-> ea.account_id, email_hash |-> ea.email_hash,
     attachment_hash |-> ea.attachment_hash, filename |-> ea.filename]

\* a lookup that never finds the row
AccountRowsNotFound(username) == {}

\* get_account: the row of the username, inserted when there is none.
\* The INSERT stores datetime.now(); the Account returned for a new row
\* carries 1970-01-01T00:00:00.
AccountRows(username) == {r \in accounts : r.username = username}
NextRowId == IF accounts = {} THEN 1
             ELSE 1 + (CHOOSE n \in {r.id : r \in accounts} :
                          \A r \in accounts : r.id <= n)
get_account_rows(username) ==
    IF AccountRows(username) = {}
    THEN accounts \cup {[id |-> NextRowId, username |-> username, last_synced |-> "now"]}
    ELSE accounts
get_account(username) ==
    IF AccountRows(username) = {}
    THEN [id |-> NextRowId, username |-> username, last_synced |-> "epoch"]
    ELSE LET row == CHOOSE r \in AccountRows(username) :
                        \A q \in AccountRows(username) : r.id <= q.id
         IN  [id |-> row.id, username |-> row.username, last_synced |-> row.last_synced]

\* ------------------------------------------------------------------------
\* Initial state: a database file just created by Database.__init__ (the four
\* tables empty), no invocation made, any remote mailbox within the bounds
\* ------------------------------------------------------------------------
NoAccount == [id |-> 0, username |-> "", last_synced |-> ""]
Idle == [f \in Folders |-> "idle"]
NoSeqs == [f \in Folders |-> <<>>]
Zeros == [f \in Folders |-> 0]
NoErr == [f \in Folders |-> "none"]
NoSets == [f \in Folders |-> {}]
Nobody == [f \in Folders |-> FALSE]

\* a call counter; it stops at 2, which already is one call too many
Counted(n) == IF n < 2 THEN n + 1 ELSE n

max_workers == 14

Constructed ==
    /\ remote \in Mailboxes
    /\ accounts = {}
    /\ emails = {}
    /\ attachments = {}
    /\ email_attachments = {}
    /\ phase = "idle"
    /\ account = NoAccount
    /\ pc = Idle
    /\ messages = NoSeqs
    /\ idx = Zeros
    /\ missing_emails = NoSeqs
    /\ att = Zeros
    /\ err = NoErr
    /\ skipped = NoSets
    /\ archived = NoSets
    /\ saw_absent = NoSets
    /\ cur_ok = FALSE
    /\ prev_ok = FALSE
    /\ snap = <<{}, {}, {}>>
    /\ header_calls = Zeros
    /\ full_calls = Zeros
    /\ wrote = Nobody
    /\ issued = {}

Init == Constructed /\ faulty = TRUE

\* whether a remote call returns (TRUE) or raises (FALSE)
RemoteOutcomes == IF faulty THEN BOOLEAN ELSE {TRUE}

\* whether the conversion of a message raises
ConversionOutcomes == IF faulty THEN BOOLEAN ELSE {FALSE}

ResetLocals(start) ==
    /\ pc' = [f \in Folders |-> start]
    /\ messages' = NoSeqs
    /\ idx' = Zeros
    /\ missing_emails' = NoSeqs
    /\ att' = Zeros
    /\ err' = NoErr
    /\ skipped' = NoSets
    /\ archived' = NoSets
    /\ saw_absent' = NoSets
    /\ header_calls' = Zeros
    /\ full_calls' = Zeros
    /\ wrote' = Nobody

\* ------------------------------------------------------------------------
\* fetch_all_emails / Client.__init__ / Client.fetch_emails
\* ------------------------------------------------------------------------
\* Client.__init__: self.account = db.get_account(username)
ClientInit(username) ==
    /\ account' = get_account(username)
    /\ accounts' = get_account_rows(username)
    /\ issued' = issued \cup {<<username, get_account(username).id>>}

\* One invocation of the program up to executor.map: the Client is built
\* (get_account), the folders are listed and one work item per folder is
\* handed to the pool.
StartRun ==
    /\ phase = "idle"
    /\ phase' = "running"
    /\ ClientInit(Username)
    /\ prev_ok' = cur_ok
    /\ snap' = <<emails, attachments, email_attachments>>
    /\ cur_ok' = TRUE
    /\ ResetLocals("queued")
    /\ UNCHANGED <<remote, faulty, emails, attachments, email_attachments>>

\* _get_folders raises (connection, login): fetch_emails and the program end
\* with that exception before any worker exists.
ListFoldersFails ==
    /\ phase = "idle"
    /\ faulty
    /\ ClientInit(Username)
    /\ prev_ok' = cur_ok
    /\ snap' = <<emails, attachments, email_attachments>>
    /\ cur_ok' = FALSE
    /\ ResetLocals("idle")
    /\ UNCHANGED <<remote, faulty, emails, attachments, email_attachments, phase>>

Ended(f) == pc[f] \in {"done", "failed"}
Active(f) == pc[f] \notin {"idle", "queued", "done", "failed"}

\* shutdown(wait=False): the block ends while work items still run
WorkItemsNotAwaited == TRUE

\* shutdown(wait=True) has joined every pool thread
WorkItemsEnded == \A f \in Folders : Ended(f)

\* The end of the `with ThreadPoolExecutor` block: shutdown(wait=True) returns
\* once every work item has ended; the exceptions of the work items stay in
\* their futures (the iterator of executor.map is never read).
FinishRun ==
    /\ phase = "running"
    /\ WorkItemsEnded
    /\ phase' = "idle"
    /\ UNCHANGED <<remote, faulty, store, account, local, cur_ok, snap, prev_ok, issued>>

\* ------------------------------------------------------------------------
\* Client._thread_fetch_emails_from_folder, header phase
\* ------------------------------------------------------------------------
\* a pool that starts a thread for every work item
PoolUnbounded(busy) == TRUE

\* ThreadPoolExecutor(max_workers=14): a work item is taken by an idle thread,
\* or by a new thread while fewer than max_workers threads exist
PoolHasIdleThread(busy) == busy < max_workers

\* a remote call that is made again after it raised
RetryRemoteCall(at) == at

\* a remote call raises inside the worker: the exception ends the work item
AfterRemoteError(at) == "failed"

\* a worker that persists the listed headers without fetching them in full
PersistListedHeaders(f) == IF Len(remote[f]) = 0 THEN "done" ELSE "add_email"

\* where the worker stands when the header fetch has returned
AfterHeaderFetch(f) == IF Len(remote[f]) = 0 THEN "done" ELSE "headers"

\* the function without its `if len(missing_emails) == 0: return`
AlwaysFetchFull(missing) == "fetch_full"

\* `if len(missing_emails) == 0: return`, else on to the full fetch
AfterHeaderLoop(missing) == IF Len(missing) = 0 THEN "done" ELSE "fetch_full"

\* where the worker stands after the header at idx, with `missing` collected
AfterHeader(f, missing) ==
    IF idx[f] < Len(messages[f]) THEN "headers" ELSE AfterHeaderLoop(missing)

\* a pool thread takes the work item and fetches the headers of the folder
FetchHeaders(f) ==
    /\ phase = "running"
    /\ pc[f] = "queued"
    /\ PoolHasIdleThread(Cardinality({g \in Folders : Active(g)}))
    /\ header_calls' = [header_calls EXCEPT ![f] = Counted(@)]
    /\ \E ok \in RemoteOutcomes :
        IF ok
        THEN /\ messages' = [messages EXCEPT ![f] = get_all_messages_from_folder(f)]
             /\ idx' = [idx EXCEPT ![f] = 1]
             /\ pc' = [pc EXCEPT ![f] = AfterHeaderFetch(f)]
             /\ UNCHANGED <<err, cur_ok>>
        ELSE /\ pc' = [pc EXCEPT ![f] = AfterRemoteError("queued")]
             /\ err' = [err EXCEPT ![f] = "remote"]
             /\ cur_ok' = FALSE
             /\ UNCHANGED <<messages, idx>>
    /\ UNCHANGED <<remote, faulty, store, phase, account, missing_emails, att,
                   skipped, archived, saw_absent, snap, prev_ok, issued,
                   full_calls, wrote>>

\* the loop without its `continue` for an archived message
ClassifyMissingAlways(missing, exists, uid) == Append(missing, uid)

\* `if check_email_exists: continue` else `missing_emails.append(mailbox_id)`
ClassifyMissing(missing, exists, uid) ==
    IF exists THEN missing ELSE Append(missing, uid)

\* the loop without its try/except: the exception ends the worker
OnHeaderExceptionAborts(f) == "failed"

\* `except BaseException: print(e); continue`
OnHeaderException(f) == AfterHeader(f, missing_emails[f])

\* one pass of the loop over the headers
ClassifyHeader(f) ==
    /\ pc[f] = "headers"
    /\ LET m == messages[f][idx[f]]
           hash == generate_email_id(account.username, m)
           exists == check_email_exists(hash)
       IN  \E raises \in ConversionOutcomes :
            IF raises
            THEN /\ skipped' = [skipped EXCEPT ![f] = @ \cup {m.uid}]
                 /\ pc' = [pc EXCEPT ![f] = OnHeaderException(f)]
                 /\ cur_ok' = FALSE
                 /\ UNCHANGED <<missing_emails, archived>>
            ELSE /\ missing_emails' = [missing_emails EXCEPT ![f] =
                                           ClassifyMissing(@, exists, m.uid)]
                 /\ archived' = [archived EXCEPT ![f] =
                                    IF exists THEN @ \cup {m.uid} ELSE @]
                 /\ pc' = [pc EXCEPT ![f] = AfterHeader(f, missing_emails'[f])]
                 /\ UNCHANGED <<skipped, cur_ok>>
    /\ idx' = [idx EXCEPT ![f] = @ + 1]
    /\ UNCHANGED <<remote, faulty, store, phase, account, messages, att, err, saw_absent,
                   snap, prev_ok, issued, header_calls, full_calls, wrote>>

\* ------------------------------------------------------------------------
\* Client._thread_fetch_emails_from_folder, full fetch and persistence
\* ------------------------------------------------------------------------
FetchFull(f) ==
    /\ pc[f] = "fetch_full"
    /\ \E ok \in RemoteOutcomes :
        IF ok
        THEN /\ messages' = [messages EXCEPT ![f] =
                    get_specific_messages_from_folder(f, missing_emails[f])]
             /\ idx' = [idx EXCEPT ![f] = 1]
             /\ pc' = [pc EXCEPT ![f] =
                         IF Len(messages'[f]) = 0 THEN "done" ELSE "add_email"]
             /\ UNCHANGED <<err, cur_ok>>
        ELSE /\ pc' = [pc EXCEPT ![f] = AfterRemoteError("fetch_full")]
             /\ err' = [err EXCEPT ![f] = "remote"]
             /\ cur_ok' = FALSE
             /\ UNCHANGED <<messages, idx>>
    /\ full_calls' = [full_calls EXCEPT ![f] = Counted(@)]
    /\ UNCHANGED <<remote, faulty, store, phase, account, missing_emails, att,
                   skipped, archived, saw_absent, snap, prev_ok, issued,
                   header_calls, wrote>>

CurrentMessage(f) == messages[f][idx[f]]
CurrentAttachments(f) == EmailAttachments(account, CurrentMessage(f))
CurrentAttachment(f) == CurrentAttachments(f)[att[f]]

\* a worker that fetches its missing messages one remote call at a time
NextMessageRefetches(f) ==
    IF idx[f] < Len(messages[f])
    THEN /\ pc' = [pc EXCEPT ![f] = "fetch_full"]
         /\ UNCHANGED <<idx, att>>
    ELSE /\ pc' = [pc EXCEPT ![f] = "done"]
         /\ UNCHANGED <<idx, att>>

\* the loop over the fetched messages goes on to its next message, or ends
NextMessage(f) ==
    IF idx[f] < Len(messages[f])
    THEN /\ pc' = [pc EXCEPT ![f] = "add_email"]
         /\ idx' = [idx EXCEPT ![f] = @ + 1]
         /\ att' = [att EXCEPT ![f] = 0]
    ELSE /\ pc' = [pc EXCEPT ![f] = "done"]
         /\ UNCHANGED <<idx, att>>

\* the loop over emailAttachments goes on to its next attachment, or ends
NextAttachment(f) ==
    IF att[f] < Len(CurrentAttachments(f))
    THEN /\ pc' = [pc EXCEPT ![f] = "check_attachment"]
         /\ att' = [att EXCEPT ![f] = @ + 1]
         /\ UNCHANGED idx
    ELSE NextMessage(f)

\* an exception leaves the loop and the function: the work item ends
Raise(f, what) ==
    /\ pc' = [pc EXCEPT ![f] = "failed"]
    /\ err' = [err EXCEPT ![f] = what]
    /\ UNCHANGED <<idx, att>>

\* convert the fetched message, then db.add_email(email): INSERT INTO emails
AddEmail(f) ==
    /\ pc[f] = "add_email"
    /\ \E raises \in ConversionOutcomes :
        IF raises
        THEN /\ Raise(f, "convert")
             /\ cur_ok' = FALSE
             /\ UNCHANGED emails
        ELSE LET email == Email(account, f, CurrentMessage(f))
             IN  /\ IF EmailsKeyTaken(email.hash)
                    THEN Raise(f, "emails") /\ UNCHANGED emails
                    ELSE /\ emails' = emails \cup {email}
                         /\ NextAttachment(f)
                         /\ UNCHANGED err
                 /\ UNCHANGED cur_ok
    /\ wrote' = [wrote EXCEPT ![f] = @ \/ emails' # emails]
    /\ UNCHANGED <<remote, faulty, accounts, attachments, email_attachments, phase,
                   account, messages, missing_emails, skipped, archived, saw_absent,
                   snap, prev_ok, issued, header_calls, full_calls>>

\* add_emailAttachment: `if not self.check_attachment_exists(...)`
CheckAttachment(f) ==
    /\ pc[f] = "check_attachment"
    /\ LET hash == CurrentAttachment(f).attachment_hash
       IN  IF check_attachment_exists(hash)
           THEN /\ pc' = [pc EXCEPT ![f] = "check_link"]
                /\ UNCHANGED saw_absent
           ELSE /\ pc' = [pc EXCEPT ![f] = "add_attachment"]
                /\ saw_absent' = [saw_absent EXCEPT ![f] = @ \cup {hash}]
    /\ UNCHANGED <<remote, faulty, store, phase, account, messages, idx,
                   missing_emails, att, err, skipped, archived, cur_ok, snap, prev_ok,
                   issued, header_calls, full_calls, wrote>>

\* _add_attachment: INSERT INTO attachments
AddAttachment(f) ==
    /\ pc[f] = "add_attachment"
    /\ LET ea == CurrentAttachment(f)
       IN  IF AttachmentsKeyTaken(ea.attachment_hash)
           THEN Raise(f, "attachments") /\ UNCHANGED attachments
           ELSE /\ attachments' = attachments \cup {AttachmentRow(ea)}
                /\ pc' = [pc EXCEPT ![f] = "check_link"]
                /\ UNCHANGED <<idx, att, err>>
    /\ wrote' = [wrote EXCEPT ![f] = @ \/ attachments' # attachments]
    /\ UNCHANGED <<remote, faulty, accounts, emails, email_attachments, phase,
                   account, messages, missing_emails, skipped, archived, saw_absent,
                   cur_ok, snap, prev_ok, issued, header_calls, full_calls>>

\* add_emailAttachment: `if not self.check_email_attachment_exists(...)`
CheckLink(f) ==
    /\ pc[f] = "check_link"
    /\ IF check_email_attachment_exists(CurrentAttachment(f))
       THEN NextAttachment(f)
       ELSE /\ pc' = [pc EXCEPT ![f] = "add_link"]
            /\ UNCHANGED <<idx, att>>
    /\ UNCHANGED <<remote, faulty, store, phase, account, messages,
                   missing_emails, err, skipped, archived, saw_absent, cur_ok, snap,
                   prev_ok, issued, header_calls, full_calls, wrote>>

\* add_emailAttachment: INSERT INTO email_attachments
AddLink(f) ==
    /\ pc[f] = "add_link"
    /\ LET ea == CurrentAttachment(f)
       IN  IF LinksKeyTaken(ea)
           THEN Raise(f, "email_attachments") /\ UNCHANGED email_attachments
           ELSE /\ email_attachments' = email_attachments \cup {LinkRow(ea)}
                /\ NextAttachment(f)
                /\ UNCHANGED err
    /\ wrote' = [wrote EXCEPT ![f] = @ \/ email_attachments' # email_attachments]
    /\ UNCHANGED <<remote, faulty, accounts, emails, attachments, phase,
                   account, messages, missing_emails, skipped, archived, saw_absent,
                   cur_ok, snap, prev_ok, issued, header_calls, full_calls>>

Next ==
    \/ StartRun
    \/ ListFoldersFails
    \/ FinishRun
    \/ \E f \in Folders : FetchHeaders(f)
    \/ \E f \in Folders : ClassifyHeader(f)
    \/ \E f \in Folders : FetchFull(f)
    \/ \E f \in Folders : AddEmail(f)
    \/ \E f \in Folders : CheckAttachment(f)
    \/ \E f \in Folders : AddAttachment(f)
    \/ \E f \in Folders : CheckLink(f)
    \/ \E f \in Folders : AddLink(f)

Spec == Init /\ [][Next]_vars

\* ------------------------------------------------------------------------
\* The accounts table under any sequence of Client constructions.
\* fetch_all_emails builds one Client per configured user, one after the
\* other, and every invocation of the program does so again; each
\* construction is one get_account call. The fetches in between do not touch
\* the accounts table and are left out here.
\* ------------------------------------------------------------------------
Usernames == {"alice", "bob", "carol", "dave"}

InitAccounts == Init /\ remote = [f \in Folders |-> <<>>]

\* client = Client(db=db, host=host, username=user, password=password)
NewClient(username) ==
    /\ ClientInit(username)
    /\ UNCHANGED <<remote, faulty, emails, attachments, email_attachments, phase, local,
                   cur_ok, snap, prev_ok>>

NextAccounts == \E username \in Usernames : NewClient(username)

SpecAccounts == InitAccounts /\ [][NextAccounts]_vars

\* ------------------------------------------------------------------------
\* The statements of Database that write to emails, called in any order from
\* one thread: add_email (by a Client, once it holds its account) and
\* update_email_analytics. update_email_analytics is the one statement of
\* database.py that changes a stored emails row; the program itself never
\* calls it (analyse_emails only reads), it is there for the analytics step
\* that works on the same database file.
\* ------------------------------------------------------------------------
MaxVersion == 1
Versions == 1..MaxVersion
AnalyticsData == {"summary"}

\* the messages a folder can hand to the conversion, with their uids
FetchedMessages ==
    {[envelope |-> c.envelope, parts |-> c.parts, uid |-> k] :
        c \in Contents, k \in 1..MaxMsgs}

\* every hash an Email object handed to update_email_analytics can carry
EmailHashes == {generate_email_id(Username, m) : m \in FetchedMessages}

InitStore == Init /\ remote = [f \in Folders |-> <<>>]

\* db.add_email(email): the INSERT raises when the hash is stored
DbAddEmail(folder, message) ==
    /\ account # NoAccount
    /\ LET email == Email(account, folder, message)
       IN  emails' = IF EmailsKeyTaken(email.hash) THEN emails ELSE emails \cup {email}
    /\ UNCHANGED <<remote, faulty, accounts, attachments, email_attachments, phase, account,
                   local, cur_ok, snap, prev_ok, issued>>

\* UPDATE emails SET analytics_version = ?, analytics_data = ? without WHERE
update_every_email(hash, version, data) ==
    {[r EXCEPT !.analytics_version = version, !.analytics_data = JsonDumps(data)] :
        r \in emails}

\* UPDATE emails SET analytics_version = ?, analytics_data = ? WHERE hash = ?
update_email_analytics(hash, version, data) ==
    {IF r.hash = hash
     THEN [r EXCEPT !.analytics_version = version, !.analytics_data = JsonDumps(data)]
     ELSE r : r \in emails}

UpdateEmailAnalytics(hash, version, data) ==
    /\ emails' = update_email_analytics(hash, version, data)
    /\ UNCHANGED <<remote, faulty, accounts, attachments, email_attachments, phase, account,
                   local, cur_ok, snap, prev_ok, issued>>

NextStore ==
    \/ NewClient(Username)
    \/ \E folder \in Folders, message \in FetchedMessages : DbAddEmail(folder, message)
    \/ \E hash \in EmailHashes, version \in Versions, data \in AnalyticsData :
            UpdateEmailAnalytics(hash, version, data)

SpecStore == InitStore /\ [][NextStore]_vars

\* ------------------------------------------------------------------------
\* The thread pool of fetch_emails for an account with more folders than
\* max_workers. Only the scheduling is followed here: a work item is
\* "queued" until a pool thread takes it, "running" while the thread is in
\* _thread_fetch_emails_from_folder, and "done" when that call has returned
\* or raised. The work queue of ThreadPoolExecutor is first in, first out,
\* and executor.map submits the folders in list order, so the items are
\* taken in that order. header_calls counts how often a thread entered the
\* function for the folder (its first statement is the header fetch).
\* ------------------------------------------------------------------------
NumPoolFolders == 15
PoolFolders == 1..NumPoolFolders

InitPool ==
    /\ remote = [f \in Folders |-> <<>>]
    /\ accounts = {}
    /\ emails = {}
    /\ attachments = {}
    /\ email_attachments = {}
    /\ phase = "idle"
    /\ account = NoAccount
    /\ pc = [i \in PoolFolders |-> "idle"]
    /\ messages = NoSeqs
    /\ idx = Zeros
    /\ missing_emails = NoSeqs
    /\ att = Zeros
    /\ err = NoErr
    /\ skipped = NoSets
    /\ archived = NoSets
    /\ saw_absent = NoSets
    /\ cur_ok = FALSE
    /\ prev_ok = FALSE
    /\ snap = <<{}, {}, {}>>
    /\ header_calls = [i \in PoolFolders |-> 0]
    /\ full_calls = Zeros
    /\ wrote = Nobody
    /\ issued = {}
    /\ faulty = TRUE

PoolRest ==
    <<remote, faulty, emails, attachments, email_attachments, messages, idx, missing_emails,
      att, err, skipped, archived, saw_absent, cur_ok, snap, prev_ok, full_calls, wrote>>

\* Client(...) and fetch_emails up to executor.map: one work item per folder
PoolSubmit ==
    /\ phase = "idle"
    /\ phase' = "running"
    /\ ClientInit(Username)
    /\ pc' = [i \in PoolFolders |-> "queued"]
    /\ header_calls' = [i \in PoolFolders |-> 0]
    /\ UNCHANGED PoolRest

\* a pool thread takes the oldest queued work item and enters the function
PoolTake(i) ==
    /\ phase = "running"
    /\ pc[i] = "queued"
    /\ \A j \in PoolFolders : j < i => pc[j] # "queued"
    /\ PoolHasIdleThread(Cardinality({j \in PoolFolders : Active(j)}))
    /\ pc' = [pc EXCEPT ![i] = "running"]
    /\ header_calls' = [header_calls EXCEPT ![i] = Counted(@)]
    /\ UNCHANGED <<accounts, phase, account, issued, PoolRest>>

\* the function returns or raises: the thread is idle again
PoolReturn(i) ==
    /\ pc[i] = "running"
    /\ pc' = [pc EXCEPT ![i] = "done"]
    /\ UNCHANGED <<accounts, phase, account, issued, header_calls, PoolRest>>

\* the end of the `with ThreadPoolExecutor` block
PoolJoin ==
    /\ phase = "running"
    /\ \A i \in PoolFolders : Ended(i)
    /\ phase' = "idle"
    /\ UNCHANGED <<accounts, account, issued, pc, header_calls, PoolRest>>

NextPool ==
    \/ PoolSubmit
    \/ \E i \in PoolFolders : PoolTake(i)
    \/ \E i \in PoolFolders : PoolReturn(i)
    \/ PoolJoin

SpecPool == InitPool /\ [][NextPool]_vars

\* ------------------------------------------------------------------------
\* The program run again and again against a mail server whose calls never
\* raise, with messages whose conversion never raises: whenever fetch_emails
\* has returned the program is started once more, and a pool thread that can
\* take a step takes it (some step is always taken when one is possible).
\* ------------------------------------------------------------------------
InitRerun == Constructed /\ faulty = FALSE

NextRerun ==
    \/ StartRun
    \/ FinishRun
    \/ \E f \in Folders : FetchHeaders(f)
    \/ \E f \in Folders : ClassifyHeader(f)
    \/ \E f \in Folders : FetchFull(f)
    \/ \E f \in Folders : AddEmail(f)
    \/ \E f \in Folders : CheckAttachment(f)
    \/ \E f \in Folders : AddAttachment(f)
    \/ \E f \in Folders : CheckLink(f)
    \/ \E f \in Folders : AddLink(f)

SpecRerun == InitRerun /\ [][NextRerun]_vars /\ WF_vars(NextRerun)

\* ------------------------------------------------------------------------
\* Vocabulary of the properties
\* ------------------------------------------------------------------------
Tables == <<emails, attachments, email_attachments>>
StoreErrors == {"emails", "attachments", "email_attachments"}
PersistPcs == {"add_email", "check_attachment", "add_attachment", "check_link", "add_link"}

\* fetch_emails has returned to its caller
Returned == phase = "idle" /\ \A f \in Folders : Ended(f)

\* the worker's full fetch has returned its messages (they are in `messages`)
FullFetched(f) ==
    \/ pc[f] \in PersistPcs
    \/ pc[f] = "done" /\ Len(missing_emails[f]) > 0
    \/ pc[f] = "failed" /\ err[f] \in StoreErrors \cup {"convert"}

\* the worker's header loop has ended
HeadersDone(f) == pc[f] = "fetch_full" \/ pc[f] = "done" \/ FullFetched(f)

HashOf(m) == generate_email_id(Username, m)
StoredHashes == {r.hash : r \in emails}
RowsOf(hash) == {r \in emails : r.hash = hash}
Uids(f) == 1..Len(remote[f])

\* worker f has called db.add_email for its k-th fetched message
CalledAddEmail(f, k) ==
    /\ FullFetched(f)
    /\ k \in 1..Len(messages[f])
    /\ \/ k < idx[f]
       \/ k = idx[f] /\ pc[f] \notin {"add_email"} /\ err[f] # "convert"

\* worker f went through all of add_emailAttachment for every attachment of
\* its k-th fetched message
LinksStored(f, k) ==
    \A j \in 1..Len(EmailAttachments(account, messages[f][k])) :
        LinksKeyTaken(EmailAttachments(account, messages[f][k])[j])

\* ------------------------------------------------------------------------
\* C1  Idempotence: when fetch_emails has run to completion twice with no
\* remote and no conversion error in either run, the tables after the second
\* run are the tables after the first run (the second run inserted nothing).
\* ------------------------------------------------------------------------
C1_SecondRunChangesNothing ==
    (Returned /\ prev_ok /\ cur_ok) => Tables = snap

\* two workers have both called db.add_email for the hash h
BothAddEmail(f, g, h) ==
    /\ f # g
    /\ \E k \in 1..Len(messages[f]) : CalledAddEmail(f, k) /\ HashOf(messages[f][k]) = h
    /\ \E k \in 1..Len(messages[g]) : CalledAddEmail(g, k) /\ HashOf(messages[g][k]) = h

\* ------------------------------------------------------------------------
\* C2  Two workers of one run (no remote or conversion error in it) that both
\* call add_email for the same identity hash: when fetch_emails has returned
\* neither has ended with an exception, both have persisted all the messages
\* they fetched, and emails holds exactly one row for the hash.
\* ------------------------------------------------------------------------
C2_DuplicateInsertIsSilent ==
    (Returned /\ cur_ok) =>
        \A f, g \in Folders : \A h \in StoredHashes :
            BothAddEmail(f, g, h) =>
                /\ pc[f] = "done" /\ pc[g] = "done"
                /\ \A k \in 1..Len(messages[f]) : HashOf(messages[f][k]) \in StoredHashes
                /\ \A k \in 1..Len(messages[g]) : HashOf(messages[g][k]) \in StoredHashes
                /\ Cardinality(RowsOf(h)) = 1

\* check_attachment_exists returned False for the hash a to both workers
BothSawAbsent(f, g, a) == f # g /\ a \in saw_absent[f] /\ a \in saw_absent[g]

\* ------------------------------------------------------------------------
\* C3  Two workers that both found the same attachment hash absent
\* (check_attachment_exists returned False to both, so neither had inserted
\* it yet): neither ends with an exception, and once both have ended there is
\* one attachments row for the hash and the links of both are stored.
\* ------------------------------------------------------------------------
C3_AttachmentRaceIsSafe ==
    \A f, g \in Folders : \A a \in saw_absent[f] :
        BothSawAbsent(f, g, a) =>
            /\ pc[f] # "failed" /\ pc[g] # "failed"
            /\ (Ended(f) /\ Ended(g)) =>
                /\ Cardinality({r \in attachments : r.hash = a}) = 1
                /\ \A k \in 1..Len(messages[f]) : LinksStored(f, k)
                /\ \A k \in 1..Len(messages[g]) : LinksStored(g, k)

\* ------------------------------------------------------------------------
\* C4  When the header fetch or the full fetch of a folder B has raised, then
\* once fetch_emails has returned every message that another folder A
\* fetched, A having had no conversion error, is in emails.
\* ------------------------------------------------------------------------
C4_SiblingMessagesPresent ==
    Returned =>
        \A a, b \in Folders :
            (a # b /\ err[b] = "remote" /\ FullFetched(a) /\ err[a] # "convert") =>
                \A k \in 1..Len(messages[a]) : HashOf(messages[a][k]) \in StoredHashes

\* ------------------------------------------------------------------------
\* C5  A worker whose add_email / _add_attachment / link INSERT raised on one
\* message still persists every later message of the same full fetch.
\* ------------------------------------------------------------------------
C5_StoreErrorSkipsOneMessage ==
    \A f \in Folders :
        (Ended(f) /\ err[f] \in StoreErrors) =>
            \A k \in 1..Len(messages[f]) :
                k > idx[f] => HashOf(messages[f][k]) \in StoredHashes

\* the uids, from k on, of the headers a worker checked and found absent
RECURSIVE AbsentFrom(_, _)
AbsentFrom(f, k) ==
    IF k > Len(remote[f]) THEN <<>>
    ELSE IF k \in archived[f] \cup skipped[f] THEN AbsentFrom(f, k + 1)
    ELSE <<k>> \o AbsentFrom(f, k + 1)

\* ------------------------------------------------------------------------
\* C6  Missing-only fetch: the uid list a worker passes to the full fetch
\* holds, once each and in folder order, exactly the uids of the headers
\* whose hash check_email_exists found absent: no uid of a header found
\* archived, none of a skipped header, and no other header left out; and the
\* full fetch returns the messages of exactly these uids.
\* ------------------------------------------------------------------------
C6_MissingOnlyFetch ==
    \A f \in Folders :
        /\ (pc[f] = "fetch_full" \/ FullFetched(f)) =>
                missing_emails[f] = AbsentFrom(f, 1)
        /\ FullFetched(f) =>
                [k \in 1..Len(messages[f]) |-> messages[f][k].uid] = missing_emails[f]

\* a worker about to request some, not all, of the headers it classified
C6_Witness ==
    \E f \in Folders :
        /\ pc[f] = "fetch_full"
        /\ archived[f] # {}
        /\ Len(missing_emails[f]) > 0
        /\ Len(missing_emails[f]) + Cardinality(archived[f]) = Len(remote[f])

\* the emailAttachments of the stored message r (read back from the remote)
SourceOf(r) == [uid |-> r.mailbox_id,
                envelope |-> remote[r.mailbox][r.mailbox_id].envelope,
                parts |-> remote[r.mailbox][r.mailbox_id].parts]
AttachmentsOfRow(r) == EmailAttachments(account, SourceOf(r))

\* ------------------------------------------------------------------------
\* C7  Two stored messages with distinct identity hashes whose attachments
\* have the same bytes under different filenames: once fetch_emails has
\* returned there is exactly one attachments row for the content and a link
\* row for each of the two messages, whatever the interleaving was.
\* ------------------------------------------------------------------------
C7_DedupCorrectness ==
    Returned =>
        \A r1, r2 \in emails :
            \A j1 \in 1..Len(AttachmentsOfRow(r1)) : \A j2 \in 1..Len(AttachmentsOfRow(r2)) :
                LET ea1 == AttachmentsOfRow(r1)[j1]
                    ea2 == AttachmentsOfRow(r2)[j2]
                IN  (/\ r1.hash # r2.hash
                     /\ ea1.attachment_hash = ea2.attachment_hash
                     /\ ea1.filename # ea2.filename) =>
                        /\ Cardinality({a \in attachments : a.hash = ea1.attachment_hash}) = 1
                        /\ LinkRow(ea1) \in email_attachments
                        /\ LinkRow(ea2) \in email_attachments
                        /\ LinkRow(ea1) # LinkRow(ea2)

\* ------------------------------------------------------------------------
\* C8  emails never holds two rows with the same hash, and no step removes
\* or changes a row of emails.
\* ------------------------------------------------------------------------
C8_OneRowPerHashNeverDeleted ==
    /\ [](\A r1, r2 \in emails : r1.hash = r2.hash => r1 = r2)
    /\ [][emails \subseteq emails']_vars

\* an INSERT for a hash that is already stored has been attempted
C8_Witness ==
    \E f \in Folders :
        /\ pc[f] = "failed" /\ err[f] = "emails"
        /\ HashOf(messages[f][idx[f]]) \in StoredHashes
        /\ \E r \in emails : r.hash = HashOf(messages[f][idx[f]]) /\ r.mailbox # f

\* ------------------------------------------------------------------------
\* C9  A header whose conversion raised is skipped (its uid is not requested)
\* and the worker classifies every other header of the folder: it is still
\* in its header loop or has classified them all, and has not ended with an
\* exception in the header phase.
\* ------------------------------------------------------------------------
C9_HeaderErrorSkipsOneHeader ==
    \A f \in Folders :
        skipped[f] # {} =>
            /\ skipped[f] \cap Range(missing_emails[f]) = {}
            /\ \/ pc[f] = "headers" /\ idx[f] <= Len(messages[f])
               \/ /\ HeadersDone(f) \/ (pc[f] = "failed" /\ err[f] = "remote")
                  /\ skipped[f] \cup archived[f] \cup Range(missing_emails[f]) = Uids(f)

\* a header was skipped and a later header of the folder was requested
C9_Witness ==
    \E f \in Folders :
        /\ FullFetched(f)
        /\ \E k \in skipped[f] : \E n \in Range(missing_emails[f]) : k < n

\* ------------------------------------------------------------------------
\* C10  Folder completeness: when a worker has ended after its full fetch,
\* every message the full fetch returned is in emails or is the message on
\* which an exception was raised (here: for workers no conversion raised
\* in); and after a run with no remote and no conversion error every message
\* of every folder is in emails.
\* ------------------------------------------------------------------------
C10_FolderComplete ==
    /\ \A f \in Folders :
        (Ended(f) /\ FullFetched(f) /\ err[f] # "convert") =>
            \A k \in 1..Len(messages[f]) :
                \/ HashOf(messages[f][k]) \in StoredHashes
                \/ pc[f] = "failed" /\ k = idx[f]
    /\ (Returned /\ cur_ok) =>
            \A f \in Folders : \A k \in Uids(f) :
                HashOf(remote[f][k]) \in StoredHashes

\* one step of the worker of folder f
WorkerStep(f) ==
    \/ FetchHeaders(f)
    \/ ClassifyHeader(f)
    \/ FetchFull(f)
    \/ AddEmail(f)
    \/ CheckAttachment(f)
    \/ AddAttachment(f)
    \/ CheckLink(f)
    \/ AddLink(f)

\* what the worker of folder f holds
WorkerLocals(f) ==
    <<pc[f], messages[f], idx[f], missing_emails[f], att[f], err[f], wrote[f]>>

\* ------------------------------------------------------------------------
\* C11  fetch_emails is a barrier: whenever the program is outside the
\* ThreadPoolExecutor block (fetch_emails has returned, or the next
\* invocation has not yet handed out its work items) no worker is running
\* or waiting, and a step taken there changes no row of emails, attachments
\* or email_attachments.
\* ------------------------------------------------------------------------
C11_FetchEmailsIsBarrier ==
    /\ [](phase = "idle" => \A f \in Folders : ~Active(f) /\ pc[f] # "queued")
    /\ [][phase = "idle" => Tables' = Tables]_vars

\* the next invocation has begun (its Client found the account row of the
\* one before) after an invocation in which workers wrote rows
C11_Witness ==
    /\ phase = "running"
    /\ account.last_synced = "now"
    /\ emails # {}
    /\ \A f \in Folders : pc[f] = "queued"

\* ------------------------------------------------------------------------
\* C12  A remote call that raises ends only the worker of its folder, which
\* has inserted no row in this invocation: the step in which it raises
\* changes no table and nothing another worker holds, and every other worker
\* that has not ended can still take its next step.
\* ------------------------------------------------------------------------
C12_RemoteErrorAbortsOnlyItsFolder ==
    /\ [](\A f \in Folders : err[f] = "remote" => pc[f] = "failed" /\ ~wrote[f])
    /\ [](\A f, g \in Folders :
            (err[f] = "remote" /\ phase = "running" /\ ~Ended(g)) =>
                ENABLED WorkerStep(g))
    /\ [][\A f \in Folders :
            (err[f] # "remote" /\ err'[f] = "remote") =>
                /\ Tables' = Tables
                /\ \A g \in Folders \ {f} : WorkerLocals(g)' = WorkerLocals(g)]_vars

\* the full fetch of one folder raised and the worker of another folder went
\* on to insert rows and ended without an exception
C12_Witness ==
    \E f, g \in Folders :
        /\ f # g
        /\ err[f] = "remote" /\ full_calls[f] = 1
        /\ pc[g] = "done" /\ wrote[g]

\* ------------------------------------------------------------------------
\* C13  The row get_account creates for a new username carries the sentinel
\* 1970-01-01T00:00:00 as last_synced, as does the Account the creating call
\* returns (nothing in the program changes last_synced afterwards, so every
\* row and every returned Account carries it).
\* ------------------------------------------------------------------------
C13_NewAccountCarriesSentinel ==
    /\ \A r \in accounts : r.last_synced = "epoch"
    /\ account # NoAccount => account.last_synced = "epoch"

\* ------------------------------------------------------------------------
\* C14  One account per username: accounts never holds two rows with the
\* same username, and all the Accounts get_account has returned for one
\* username carry the same id.
\* ------------------------------------------------------------------------
C14_OneAccountPerUsername ==
    /\ \A r1, r2 \in accounts : r1.username = r2.username => r1 = r2
    /\ \A p, q \in issued : p[1] = q[1] => p[2] = q[2]

\* the first username was looked up again after two others had been created
C14_Witness ==
    /\ Cardinality(accounts) >= 3
    /\ account.id = 1
    /\ account.last_synced = "now"

\* the fields of an emails row that are not the analytics fields
Core(r) == [hash |-> r.hash, account_id |-> r.account_id,
            mailbox |-> r.mailbox, mailbox_id |-> r.mailbox_id]

\* ------------------------------------------------------------------------
\* C15  Message immutability. In every step every stored emails row stays,
\* with all its fields other than analytics_version and analytics_data
\* unchanged; a step that adds a row (add_email) changes no stored row; a
\* step that changes the analytics fields (update_email_analytics) adds no
\* row and changes only rows of one hash, the one it was given.
\* ------------------------------------------------------------------------
C15_MessageImmutability ==
    [][/\ \A r \in emails : \E q \in emails' : Core(q) = Core(r)
       /\ {Core(q) : q \in emails'} # {Core(r) : r \in emails} => emails \subseteq emails'
       /\ ~(emails \subseteq emails') =>
            /\ {Core(q) : q \in emails'} = {Core(r) : r \in emails}
            /\ Cardinality(emails') = Cardinality(emails)
            /\ \A r1, r2 \in emails \ emails' : r1.hash = r2.hash]_vars

\* the analytics fields of one row were updated and another row still has
\* those it was inserted with
C15_Witness ==
    \E r1, r2 \in emails :
        /\ r1.hash # r2.hash
        /\ r1.analytics_version = 1 /\ r1.analytics_data = JsonDumps("summary")
        /\ r2.analytics_version = 0 /\ r2.analytics_data = JsonDumps("{}")

\* ------------------------------------------------------------------------
\* C16  add_email is not an upsert: when a worker calls db.add_email for a
\* hash that emails already holds, the call raises (the worker ends with the
\* exception of the emails INSERT) and accounts, emails, attachments and
\* email_attachments are left as they were, the stored row included.
\* ------------------------------------------------------------------------
C16_AddEmailIsNotUpsert ==
    [][\A f \in Folders :
        (/\ pc[f] = "add_email"
         /\ HashOf(CurrentMessage(f)) \in StoredHashes
         /\ WorkerLocals(f)' # WorkerLocals(f)
         /\ err'[f] # "convert") =>
            /\ pc'[f] = "failed" /\ err'[f] = "emails"
            /\ store' = store]_vars

\* add_email has raised for a message whose hash is stored with the same
\* folder and another remote id
C16_Witness ==
    \E f \in Folders :
        /\ pc[f] = "failed" /\ err[f] = "emails"
        /\ \E r \in emails :
            /\ r.hash = HashOf(messages[f][idx[f]])
            /\ r.mailbox = f
            /\ r.mailbox_id # messages[f][idx[f]].uid

\* ------------------------------------------------------------------------
\* C17  Phase ordering in a worker: the full fetch is called only after the
\* header fetch has returned and every header has been gone through, and a
\* row is inserted only by a worker whose full fetch has returned; no worker
\* has written before that.
\* ------------------------------------------------------------------------
C17_PhaseOrdering ==
    /\ [](\A f \in Folders :
            /\ full_calls[f] > 0 => header_calls[f] > 0
            /\ wrote[f] => full_calls[f] > 0 /\ FullFetched(f))
    /\ [][\A f \in Folders :
            full_calls'[f] > full_calls[f] =>
                /\ pc[f] = "fetch_full"
                /\ header_calls[f] > 0
                /\ idx[f] > Len(messages[f])]_vars
    /\ [][\A f \in Folders :
            (Tables' # Tables /\ WorkerLocals(f)' # WorkerLocals(f)) =>
                /\ full_calls[f] > 0
                /\ pc[f] \in PersistPcs]_vars

\* a worker went through both remote calls and stored two messages or more
C17_Witness ==
    \E f \in Folders :
        /\ pc[f] = "done" /\ wrote[f]
        /\ header_calls[f] = 1 /\ full_calls[f] = 1
        /\ Len(messages[f]) >= 2

\* ------------------------------------------------------------------------
\* C18  A worker whose header loop has ended with nothing missing has ended:
\* it has made no full fetch and inserted no row; and a full fetch is never
\* asked for, or made, with an empty list of uids.
\* ------------------------------------------------------------------------
C18_NothingMissingNothingFetched ==
    \A f \in Folders :
        /\ (HeadersDone(f) /\ missing_emails[f] = <<>>) =>
                pc[f] = "done" /\ full_calls[f] = 0 /\ ~wrote[f]
        /\ (pc[f] = "fetch_full" \/ full_calls[f] > 0) => missing_emails[f] # <<>>

\* a worker went through the headers of a folder that has messages, found
\* them all stored, and ended
C18_Witness ==
    \E f \in Folders :
        /\ Len(remote[f]) > 0
        /\ pc[f] = "done"
        /\ missing_emails[f] = <<>>
        /\ archived[f] = Uids(f)
        /\ header_calls[f] = 1

\* ------------------------------------------------------------------------
\* C19  Bounded pool: never more than max_workers (14) work items are
\* running at once, however many folders the account has; no folder is
\* entered by a thread more than once in an invocation, every folder that is
\* running or done was entered exactly once, and when fetch_emails has
\* returned that holds of every folder.
\* ------------------------------------------------------------------------
C19_BoundedPool ==
    /\ Cardinality({i \in PoolFolders : Active(i)}) <= max_workers
    /\ \A i \in PoolFolders :
        /\ header_calls[i] <= 1
        /\ (Active(i) \/ Ended(i)) => header_calls[i] = 1
        /\ pc[i] = "queued" => header_calls[i] = 0

\* all the threads of the pool are busy and a work item waits in the queue
C19_Witness ==
    /\ Cardinality({i \in PoolFolders : Active(i)}) = max_workers
    /\ \E i \in PoolFolders : pc[i] = "queued"

\* ------------------------------------------------------------------------
\* C20  No retry: in one invocation of fetch_emails the header fetch and the
\* full fetch are each called at most once per folder, and once a remote
\* call of a folder has raised, the worker has ended and no remote call is
\* made for that folder until the invocation is over.
\* ------------------------------------------------------------------------
C20_NoRetry ==
    /\ [](\A f \in Folders : header_calls[f] <= 1 /\ full_calls[f] <= 1)
    /\ [][\A f \in Folders :
            (phase = "running" /\ err[f] = "remote") =>
                /\ pc'[f] = "failed"
                /\ header_calls'[f] = header_calls[f]
                /\ full_calls'[f] = full_calls[f]]_vars

\* the invocation is over; the header fetch of one folder and the full fetch
\* of another had raised, and neither call was made again
C20_Witness ==
    /\ Returned
    /\ \E f, g \in Folders :
        /\ err[f] = "remote" /\ header_calls[f] = 1 /\ full_calls[f] = 0
        /\ err[g] = "remote" /\ header_calls[g] = 1 /\ full_calls[g] = 1

\* the hash of every message of every folder of the remote mailbox is in emails
AllStored ==
    \A f \in Folders : \A k \in Uids(f) : HashOf(remote[f][k]) \in StoredHashes

\* the same, of the emails table as the current invocation found it
AllStoredAtStart ==
    \A f \in Folders : \A k \in Uids(f) :
        HashOf(remote[f][k]) \in {r.hash : r \in snap[1]}

\* ------------------------------------------------------------------------
\* C21  Re-running converges: when the program is run again and again and
\* invocations with no remote and no conversion error keep coming to their
\* end, from some point on the hash of every remote message is in emails;
\* and an invocation that finds them all there changes no row of emails,
\* attachments or email_attachments.
\* ------------------------------------------------------------------------
C21_RerunConverges ==
    /\ ([]<>(Returned /\ cur_ok)) => <>[]AllStored
    /\ [](AllStoredAtStart /\ account # NoAccount => Tables = snap)

\* an invocation without error has ended with every message stored, after an
\* earlier one had left some of them missing
C21_Witness ==
    /\ Returned /\ cur_ok
    /\ AllStored
    /\ snap[1] # {}
    /\ snap[1] # emails

\* ------------------------------------------------------------------------
\* C22  Referential integrity of links: in every state, those between the
\* steps of concurrently running workers included, every row of
\* email_attachments has its email_hash in emails and its attachment_hash in
\* attachments.
\* ------------------------------------------------------------------------
C22_LinksReferToStoredRows ==
    \A l \in email_attachments :
        /\ \E r \in emails : r.hash = l.email_hash
        /\ \E a \in attachments : a.hash = l.attachment_hash

\* two links share one attachment row while a worker is still in its persist
\* loop
C22_Witness ==
    /\ \E l1, l2 \in email_attachments :
        l1 # l2 /\ l1.attachment_hash = l2.attachment_hash
    /\ \E f \in Folders : pc[f] \in PersistPcs

====
